---------------------------- MODULE Spec2Model ----------------------------
(***************************************************************************)
(* Form definitions: slug generation (generateSlug), the create endpoint  *)
(* (POST /api/forms) against the storage collaborator, and the read by    *)
(* slug used by the rendering page (getForm).                             *)
(*                                                                         *)
(* A string is a sequence of characters; a character is a one-character   *)
(* string, except "U+0130" and "U+0307", which name the two Unicode code   *)
(* points LATIN CAPITAL LETTER I WITH DOT ABOVE and COMBINING DOT ABOVE.   *)
(***************************************************************************)
EXTENDS Integers, Sequences, FiniteSets, TLC

VARIABLES
    store,      \* the Form table with its Field rows, in creation order
    pc,         \* per request: position of the POST handler
    body,       \* per request: the parsed request body
    slug,       \* per request: the local `slug` of POST
    ops,        \* per request: the storage calls the handler has issued
    seen,       \* per request (history): how many forms were stored on arrival
    thrown,     \* per request: the error caught by POST's catch block
    resp,       \* per request: the HTTP response
    slugRun,    \* a run of generateSlug on a title and again on its result
    page,       \* the outcome of the last FormPage render
    formData,   \* FormBuilder: the edit buffer (title, slug, fields)
    isSubmitting, \* FormBuilder: the isSubmitting state
    closure,    \* FormBuilder: the state the last render's handlers captured
    nextId,     \* FormBuilder: how many field ids crypto.randomUUID has given
    save        \* per request: the saveForm call that sends it

builderVars == <<formData, isSubmitting, closure, nextId, save>>

clientVars == <<page, builderVars>>

vars == <<store, pc, body, slug, ops, seen, thrown, resp, slugRun, clientVars>>

-----------------------------------------------------------------------------
(* Bounds *)

MaxLen == 3        \* longest title given to generateSlug in SlugSpec
MaxFields == 2     \* longest field list in a request body
MaxOrder == 1      \* largest client-supplied order value
MaxOptions == 2    \* longest options list of a choice field
MaxAdds == 3       \* addField calls in a run of the builder

-----------------------------------------------------------------------------
(* Characters *)

TitleChars == {"a", "A", "7", "-", " ", "!", "U+0130"}

\* String.prototype.toLowerCase on one character: the result is a string,
\* and for U+0130 it is two code points long.
LowerChar(c) ==
    CASE c = "A" -> <<"a">>
      [] c = "U+0130" -> <<"i", "U+0307">>
      [] OTHER -> <<c>>

RECURSIVE toLowerCase(_)
toLowerCase(s) ==
    IF s = <<>> THEN <<>> ELSE LowerChar(Head(s)) \o toLowerCase(Tail(s))

\* the character class [a-z0-9], over the characters of the model
InClass(c) == c \in {"a", "i", "7"}

IsSpace(c) == c = " "

\* replace(/[^a-z0-9]/g, '-'): the same replacement without the +, so that
\* every character outside the class becomes its own '-'
RECURSIVE ReplaceEach(_)
ReplaceEach(s) ==
    IF s = <<>> THEN <<>>
    ELSE (IF InClass(Head(s)) THEN <<Head(s)>> ELSE <<"-">>) \o ReplaceEach(Tail(s))

\* drop the leading characters outside [a-z0-9]
RECURSIVE SkipRun(_)
SkipRun(s) ==
    IF s = <<>> \/ InClass(Head(s)) THEN s ELSE SkipRun(Tail(s))

\* replace(/[^a-z0-9]+/g, '-'): every maximal run of characters outside the
\* class becomes one '-'
RECURSIVE ReplaceRuns(_)
ReplaceRuns(s) ==
    IF s = <<>> THEN <<>>
    ELSE IF InClass(Head(s)) THEN <<Head(s)>> \o ReplaceRuns(Tail(s))
    ELSE <<"-">> \o ReplaceRuns(SkipRun(s))

\* replace(/(^-|-$)/g, ''), leading alternative only
StripLeading(s) ==
    IF s # <<>> /\ Head(s) = "-" THEN Tail(s) ELSE s

\* replace(/(^-|-$)/g, ''): one '-' at the start and one '-' at the end are
\* removed; the scan is left to right, so the '-' of the string "-" is taken
\* by ^- and nothing is left for -$
StripEdges(s) ==
    LET t == StripLeading(s)
    IN  IF t # <<>> /\ t[Len(t)] = "-" THEN SubSeq(t, 1, Len(t) - 1) ELSE t

\* generateSlug with the two replacements in the opposite order
generateSlugStripFirst(title) == ReplaceRuns(StripEdges(toLowerCase(title)))

\* generateSlug with the first replacement's + left out
generateSlugNoPlus(title) == StripEdges(ReplaceEach(toLowerCase(title)))

SlugRuns(title) == ReplaceRuns(toLowerCase(title))

generateSlug(title) == StripEdges(SlugRuns(title))

-----------------------------------------------------------------------------
(* generateSlug as a pure function: SlugSpec *)

RECURSIVE StringsUpTo(_)
StringsUpTo(n) ==
    IF n = 0 THEN {<<>>}
    ELSE LET shorter == StringsUpTo(n - 1)
         IN  shorter \cup {Append(s, c) : s \in {t \in shorter : Len(t) = n - 1},
                                          c \in TitleChars}

NoRun == [step |-> "none", title |-> <<>>, once |-> <<>>, twice |-> <<>>]


SlugTitles == StringsUpTo(MaxLen)

-----------------------------------------------------------------------------
(* Request bodies *)

Requests == {"r1", "r2"}

\* the six kinds of FormField.type
FieldTypes == {"TEXT", "TEXTAREA", "NUMBER", "EMAIL", "RADIO", "CHECKBOX"}

\* a type outside the six kinds
UnknownType == "DATE"

\* the fields a client sends: a text field with any order value, and a field
\* of an unrecognized type
InputFields ==
    [label : {"q"}, type : {"TEXT"}, required : {FALSE}, order : 0..MaxOrder]
        \cup {[label |-> "q", type |-> UnknownType, required |-> FALSE, order |-> 0]}

FieldLists == UNION {[1..n -> InputFields] : n \in 0..MaxFields}

\* a list of one well-formed field
OneField == <<[label |-> "q", type |-> "TEXT", required |-> FALSE, order |-> 0]>>

\* empty, whitespace only, two titles with the slug "a", no ASCII alphanumeric
PostTitles == {<<>>, <<" ">>, <<"a">>, <<"A">>, <<"!">>}

\* the JSON bodies; a key that is absent (undefined) or null has its Given
\* flag FALSE and the empty value.  Every title comes with no field list, the
\* empty one and OneField; every field list comes with the title "a".
TitleBodies ==
    {b \in [titleGiven : BOOLEAN, title : PostTitles,
            fieldsGiven : BOOLEAN, fields : {<<>>, OneField}] :
        /\ (~b.titleGiven => b.title = <<>>)
        /\ (~b.fieldsGiven => b.fields = <<>>)}

FieldBodies ==
    {[titleGiven |-> TRUE, title |-> <<"a">>, fieldsGiven |-> TRUE, fields |-> f] :
        f \in FieldLists}

\* the entries of an options list: the empty string and a text
OptionTexts == {"", "x"}

OptionLists == UNION {[1..n -> OptionTexts] : n \in 0..MaxOptions}

\* the choice fields the builder sends: RADIO or CHECKBOX with an options key
ChoiceFields ==
    [label : {"q"}, type : {"RADIO", "CHECKBOX"}, required : {FALSE}, order : {0},
     options : OptionLists]

\* every choice field comes alone under the title "a"
ChoiceBodies ==
    {[titleGiven |-> TRUE, title |-> <<"a">>, fieldsGiven |-> TRUE, fields |-> <<f>>] :
        f \in ChoiceFields}

Bodies == TitleBodies \cup FieldBodies \cup ChoiceBodies

NoBody == [titleGiven |-> FALSE, title |-> <<>>, fieldsGiven |-> FALSE, fields |-> <<>>]

\* String.prototype.trim
RECURSIVE TrimStart(_)
TrimStart(s) == IF s # <<>> /\ IsSpace(Head(s)) THEN TrimStart(Tail(s)) ELSE s

RECURSIVE TrimEnd(_)
TrimEnd(s) ==
    IF s # <<>> /\ IsSpace(s[Len(s)]) THEN TrimEnd(SubSeq(s, 1, Len(s) - 1)) ELSE s

trim(s) == TrimEnd(TrimStart(s))

-----------------------------------------------------------------------------
(* POST /api/forms *)

\* the validation with the fields.length === 0 test left out
MissingRequiredNoLength(b) ==
    \/ ~b.titleGiven \/ b.title = <<>>
    \/ ~b.fieldsGiven

\* !title || !fields || fields.length === 0
MissingRequired(b) ==
    \/ ~b.titleGiven \/ b.title = <<>>
    \/ ~b.fieldsGiven
    \/ Len(b.fields) = 0

\* a lookup that compares the candidate slug with the stored titles
findUniqueByTitle(st, s) ==
    LET hits == {i \in 1..Len(st) : st[i].title = s}
    IN  IF hits = {} THEN <<>> ELSE <<st[CHOOSE i \in hits : TRUE]>>

\* prisma.form.findUnique({ where: { slug } }): <<>> is null, <<f>> is a row
findUnique(st, s) ==
    LET hits == {i \in 1..Len(st) : st[i].slug = s}
    IN  IF hits = {} THEN <<>> ELSE <<st[CHOOSE i \in hits : TRUE]>>

\* a Form table without the uniqueness constraint on slug
UniqueViolationNever(st, s) == FALSE

\* the uniqueness constraint of the Form table on slug
UniqueViolation(st, s) == \E i \in 1..Len(st) : st[i].slug = s

\* fields.map(field => ({label, type, required, order})): the rows to create
FieldRows(fields) ==
    [i \in 1..Len(fields) |->
        [label |-> fields[i].label, type |-> fields[i].type,
         required |-> fields[i].required, order |-> fields[i].order]]

BadType(rows) == \E i \in 1..Len(rows) : rows[i].type \notin FieldTypes

\* include: { fields: { orderBy: { order: 'asc' } } }: the rows sorted by
\* order ascending; rows of equal order come in an order the storage chooses
OrderByAsc(rows) ==
    LET n == Len(rows)
        sorted == {p \in [1..n -> 1..n] :
                     /\ \A i, j \in 1..n : i # j => p[i] # p[j]
                     /\ \A i, j \in 1..n : i < j => rows[p[i]].order <= rows[p[j]].order}
    IN  {[i \in 1..n |-> rows[p[i]]] : p \in sorted}

\* no page has been rendered; `at` (history) is the number of forms stored
\* when the page was rendered
NoPage == [slug |-> <<>>, status |-> "none", form |-> <<>>, at |-> 0]

\* useState<FormData>({title: '', slug: '', fields: []})
EmptyForm == [title |-> <<>>, slug |-> <<>>, fields |-> <<>>]

NoSave == [pc |-> "idle", outcome |-> "none", sent |-> NoBody]

ClientInit ==
    /\ page = NoPage
    /\ formData = EmptyForm
    /\ isSubmitting = FALSE
    /\ closure = [formData |-> EmptyForm, isSubmitting |-> FALSE]
    /\ nextId = 0
    /\ save = [r \in Requests |-> NoSave]

NoResp == [status |-> 0, error |-> "", form |-> <<>>]

Json(status, error, form) == [status |-> status, error |-> error, form |-> form]

Init ==
    /\ store = <<>>
    /\ pc = [r \in Requests |-> "idle"]
    /\ body = [r \in Requests |-> NoBody]
    /\ slug = [r \in Requests |-> <<>>]
    /\ ops = [r \in Requests |-> {}]
    /\ seen = [r \in Requests |-> 0]
    /\ thrown = [r \in Requests |-> "none"]
    /\ resp = [r \in Requests |-> NoResp]
    /\ ClientInit
    /\ slugRun = NoRun

\* a handler that takes the slug of the body when the body has one
PostTrustingSlug(r, b) ==
    /\ pc[r] = "idle"
    /\ body' = [body EXCEPT ![r] = b]
    /\ IF MissingRequired(b)
       THEN /\ resp' = [resp EXCEPT ![r] = Json(400, "Missing required fields", <<>>)]
            /\ pc' = [pc EXCEPT ![r] = "done"]
            /\ slug' = slug
       ELSE /\ slug' = [slug EXCEPT ![r] =
                           IF "slug" \in DOMAIN b /\ b.slug # <<>>
                           THEN b.slug ELSE generateSlug(b.title)]
            /\ pc' = [pc EXCEPT ![r] = "find"]
            /\ resp' = resp
    /\ seen' = [seen EXCEPT ![r] = Len(store)]
    /\ UNCHANGED <<store, ops, thrown, slugRun, clientVars>>

\* route.ts 25-37: parse the body, validate, derive the slug
Post(r, b) ==
    /\ pc[r] = "idle"
    /\ body' = [body EXCEPT ![r] = b]
    /\ IF MissingRequired(b)
       THEN /\ resp' = [resp EXCEPT ![r] = Json(400, "Missing required fields", <<>>)]
            /\ pc' = [pc EXCEPT ![r] = "done"]
            /\ slug' = slug
       ELSE /\ slug' = [slug EXCEPT ![r] = generateSlug(b.title)]
            /\ pc' = [pc EXCEPT ![r] = "find"]
            /\ resp' = resp
    /\ seen' = [seen EXCEPT ![r] = Len(store)]
    /\ UNCHANGED <<store, ops, thrown, slugRun, clientVars>>

\* route.ts 39-49: the duplicate check
FindUnique(r) ==
    /\ pc[r] = "find"
    /\ ops' = [ops EXCEPT ![r] = @ \cup {"findUnique"}]
    /\ IF findUnique(store, slug[r]) # <<>>
       THEN /\ resp' = [resp EXCEPT ![r] =
                           Json(409, "A form with this URL already exists", <<>>)]
            /\ pc' = [pc EXCEPT ![r] = "done"]
       ELSE /\ pc' = [pc EXCEPT ![r] = "create"]
            /\ resp' = resp
    /\ UNCHANGED <<store, body, slug, seen, thrown, slugRun, clientVars>>

\* route.ts 75-80: the catch block
Caught(r, error) ==
    /\ thrown' = [thrown EXCEPT ![r] = error]
    /\ resp' = [resp EXCEPT ![r] = Json(500, "Internal server error", <<>>)]
    /\ store' = store

\* route.ts 52-74: the form and its fields are created together and the
\* saved form is returned with its fields ordered
Saved(r, rows) ==
    \E ordered \in OrderByAsc(rows) :
        LET id == Len(store) + 1
        IN  /\ store' = Append(store, [id |-> id, title |-> body[r].title,
                                       slug |-> slug[r], fields |-> rows])
            /\ resp' = [resp EXCEPT ![r] =
                           Json(201, "", <<[id |-> id, title |-> body[r].title,
                                            slug |-> slug[r], fields |-> ordered]>>)]
            /\ thrown' = thrown

\* route.ts 52-81: prisma.form.create.  Whether the type column rejects a
\* value outside FieldTypes is not decided by the handler: both outcomes occur.
Create(r) ==
    /\ pc[r] = "create"
    /\ ops' = [ops EXCEPT ![r] = @ \cup {"create"}]
    /\ pc' = [pc EXCEPT ![r] = "done"]
    /\ LET rows == FieldRows(body[r].fields)
       IN  \/ BadType(rows) /\ Caught(r, "InvalidValue")
           \/ UniqueViolation(store, slug[r]) /\ Caught(r, "UniqueConstraint")
           \/ ~UniqueViolation(store, slug[r]) /\ Saved(r, rows)
    /\ UNCHANGED <<body, slug, seen, slugRun, clientVars>>

-----------------------------------------------------------------------------
(* The read by slug *)

\* getForm giving an empty definition where the storage gave null
getFormOrEmpty(st, s) ==
    LET found == findUnique(st, s)
    IN  IF found = <<>>
        THEN {<<[id |-> 0, title |-> <<>>, slug |-> s, fields |-> <<>>]>>}
        ELSE {<<[found[1] EXCEPT !.fields = ordered]>> :
                 ordered \in OrderByAsc(found[1].fields)}

\* page.tsx 10-23: the form of that slug with its fields ordered, or null
\* (<<>>); the set holds every result the storage may give
getForm(st, s) ==
    LET found == findUnique(st, s)
    IN  IF found = <<>> THEN {<<>>}
        ELSE {<<[found[1] EXCEPT !.fields = ordered]>> :
                 ordered \in OrderByAsc(found[1].fields)}

Next ==
    \/ \E r \in Requests, b \in Bodies : Post(r, b)
    \/ \E r \in Requests : FindUnique(r)
    \/ \E r \in Requests : Create(r)

Spec == Init /\ [][Next]_vars

-----------------------------------------------------------------------------
(* SlugSpec: generateSlug applied to a title, then to its own result *)

SlugInit ==
    /\ store = <<>>
    /\ pc = [r \in Requests |-> "idle"]
    /\ body = [r \in Requests |-> NoBody]
    /\ slug = [r \in Requests |-> <<>>]
    /\ ops = [r \in Requests |-> {}]
    /\ seen = [r \in Requests |-> 0]
    /\ thrown = [r \in Requests |-> "none"]
    /\ resp = [r \in Requests |-> NoResp]
    /\ ClientInit
    /\ \E t \in SlugTitles :
          slugRun = [step |-> "title", title |-> t, once |-> <<>>, twice |-> <<>>]

Generate ==
    /\ slugRun.step = "title"
    /\ slugRun' = [slugRun EXCEPT !.step = "once", !.once = generateSlug(slugRun.title)]
    /\ UNCHANGED <<store, pc, body, slug, ops, seen, thrown, resp, clientVars>>

GenerateAgain ==
    /\ slugRun.step = "once"
    /\ slugRun' = [slugRun EXCEPT !.step = "twice", !.twice = generateSlug(slugRun.once)]
    /\ UNCHANGED <<store, pc, body, slug, ops, seen, thrown, resp, clientVars>>

SlugNext == Generate \/ GenerateAgain

SlugSpec == SlugInit /\ [][SlugNext]_vars

-----------------------------------------------------------------------------
(* PageSpec: forms are created and the page of a slug is rendered *)

\* page.tsx 26: const form = await getForm(params.slug)
PageForm(st, s) == getForm(st, s)

\* the slugs of the titles and one slug that no title has
PageSlugs == {generateSlug(t) : t \in PostTitles} \cup {<<"7">>}

\* page.tsx 25-30: render the form, or notFound() when getForm gave null
FormPage(s) ==
    /\ \E form \in PageForm(store, s) :
          page' = [slug |-> s,
                   status |-> IF form = <<>> THEN "notFound" ELSE "rendered",
                   form |-> form,
                   at |-> Len(store)]
    /\ UNCHANGED <<store, pc, body, slug, ops, seen, thrown, resp, slugRun, builderVars>>

\* a form of two fields sent with their order values swapped
SwappedBody ==
    [titleGiven |-> TRUE, title |-> <<"A">>, fieldsGiven |-> TRUE,
     fields |-> <<[label |-> "q", type |-> "TEXT", required |-> FALSE, order |-> 1],
                  [label |-> "q", type |-> "RADIO", required |-> TRUE, order |-> 0]>>]

PageBodies == TitleBodies \cup {SwappedBody}

PageNext ==
    \/ \E r \in Requests, b \in PageBodies : Post(r, b)
    \/ \E r \in Requests : FindUnique(r)
    \/ \E r \in Requests : Create(r)
    \/ \E s \in PageSlugs : FormPage(s)

PageSpec == Init /\ [][PageNext]_vars

-----------------------------------------------------------------------------
(* FormBuilder: the edit buffer *)

serverVars == <<store, pc, body, slug, ops, seen, thrown, resp, slugRun, page>>

\* the field types of the buttons the runs press
BuilderTypes == {"TEXT", "RADIO"}

\* part_000 30-38: the new field; options is <<>> (undefined) or <<list>>.
\* The order is the length of the fields the handler's render captured.
NewField(id, type, captured) ==
    [id |-> id, label |-> "", type |-> type, required |-> FALSE,
     order |-> Len(captured),
     options |-> IF type \in {"RADIO", "CHECKBOX"} THEN << <<"">> >> ELSE <<>>]

\* part_000 30-44
addField(type) ==
    /\ nextId < MaxAdds
    /\ nextId' = nextId + 1
    /\ formData' = [formData EXCEPT
           !.fields = Append(@, NewField(nextId + 1, type, closure.formData.fields))]
    /\ UNCHANGED <<isSubmitting, closure, save, serverVars>>

\* prev.fields.filter(field => field.id !== fieldId)
RECURSIVE FilterOut(_, _)
FilterOut(fields, fieldId) ==
    IF fields = <<>> THEN <<>>
    ELSE IF Head(fields).id = fieldId THEN FilterOut(Tail(fields), fieldId)
    ELSE <<Head(fields)>> \o FilterOut(Tail(fields), fieldId)

\* .map((field, index) => ({ ...field, order: index }))
Reindex(fields) == [i \in 1..Len(fields) |-> [fields[i] EXCEPT !.order = i - 1]]

\* part_000 55-61; the id is that of a field the last render shows
removeField(fieldId) ==
    /\ \E i \in 1..Len(closure.formData.fields) :
          closure.formData.fields[i].id = fieldId
    /\ formData' = [formData EXCEPT !.fields = Reindex(FilterOut(@, fieldId))]
    /\ UNCHANGED <<isSubmitting, closure, nextId, save, serverVars>>

\* the component function runs again: its handlers capture the current state
Render ==
    /\ closure # [formData |-> formData, isSubmitting |-> isSubmitting]
    /\ closure' = [formData |-> formData, isSubmitting |-> isSubmitting]
    /\ UNCHANGED <<formData, isSubmitting, nextId, save, serverVars>>

EditNext ==
    \/ \E type \in BuilderTypes : addField(type)
    \/ \E id \in 1..MaxAdds : removeField(id)
    \/ Render

EditSpec == Init /\ [][EditNext]_vars

-----------------------------------------------------------------------------
(* FormBuilder: saveForm against POST /api/forms *)

\* the titles typed into the title input, and the slug typed into the slug input
BuilderTitles == {<<"a">>, <<" ">>}

EditedSlugs == {<<"7">>}

\* part_000 111-117
handleTitleChange(title) ==
    /\ formData' = [formData EXCEPT !.title = title, !.slug = generateSlug(title)]
    /\ UNCHANGED <<isSubmitting, closure, nextId, save, serverVars>>

\* part_000 204: the slug input's onChange
slugChange(s) ==
    /\ formData' = [formData EXCEPT !.slug = s]
    /\ UNCHANGED <<isSubmitting, closure, nextId, save, serverVars>>

\* JSON.stringify of a field: a key whose value is undefined is left out
JsonField(f) ==
    IF f.options = <<>>
    THEN [id |-> f.id, label |-> f.label, type |-> f.type,
          required |-> f.required, order |-> f.order]
    ELSE [id |-> f.id, label |-> f.label, type |-> f.type,
          required |-> f.required, order |-> f.order, options |-> f.options[1]]

\* part_000 138: JSON.stringify(formData), as the body POST parses
Stringify(fd) ==
    [titleGiven |-> TRUE, title |-> fd.title, slug |-> fd.slug,
     fieldsGiven |-> TRUE,
     fields |-> [i \in 1..Len(fd.fields) |-> JsonField(fd.fields[i])]]

\* a response test that takes every response for a success
ResponseOkAlways(status) == TRUE

\* part_000 141: response.ok
ResponseOk(status) == status \in 200..299

Finished(outcome) == [pc |-> "finished", outcome |-> outcome, sent |-> NoBody]

\* part_000 119-139: the button is enabled in the last render; the title and
\* the fields tested and sent are those the render captured
saveForm(r) ==
    /\ save[r].pc = "idle"
    /\ ~closure.isSubmitting
    /\ LET fd == closure.formData
       IN  IF trim(fd.title) = <<>>
           THEN /\ save' = [save EXCEPT ![r] = Finished("noTitle")]
                /\ isSubmitting' = isSubmitting
           ELSE IF Len(fd.fields) = 0
           THEN /\ save' = [save EXCEPT ![r] = Finished("noFields")]
                /\ isSubmitting' = isSubmitting
           ELSE /\ save' = [save EXCEPT ![r] =
                               [pc |-> "awaiting", outcome |-> "none",
                                sent |-> Stringify(fd)]]
                /\ isSubmitting' = TRUE
    /\ UNCHANGED <<formData, closure, nextId, serverVars>>

\* the request of a saveForm call reaches the handler
Receive(r) ==
    /\ save[r].pc = "awaiting"
    /\ Post(r, save[r].sent)

\* part_000 153-158: fetch rejects (the request or its response is lost)
fetchThrows(r) ==
    /\ save[r].pc = "awaiting"
    /\ save' = [save EXCEPT ![r] = Finished("threw")]
    /\ isSubmitting' = FALSE
    /\ UNCHANGED <<formData, closure, nextId, serverVars>>

\* part_000 141-158: the response arrives
saveSettled(r) ==
    /\ save[r].pc = "awaiting"
    /\ pc[r] = "done"
    /\ IF ResponseOk(resp[r].status)
       THEN /\ formData' = EmptyForm
            /\ save' = [save EXCEPT ![r] = Finished("ok")]
       ELSE /\ formData' = formData
            /\ save' = [save EXCEPT ![r] = Finished("notOk")]
    /\ isSubmitting' = FALSE
    /\ UNCHANGED <<closure, nextId, serverVars>>

\* the last render shows the current state
Rendered == closure = [formData |-> formData, isSubmitting |-> isSubmitting]

\* In SaveSpec typing and adding a field come when the component has rendered
\* the state; a click on the save button, the continuations of saveForm and
\* the steps of the request handler come at any time (a second click can
\* arrive before the render that disables the button).
SaveNext ==
    \/ Rendered /\ \E title \in BuilderTitles : handleTitleChange(title)
    \/ Rendered /\ \E s \in EditedSlugs : slugChange(s)
    \/ Rendered /\ addField("RADIO")
    \/ Render
    \/ \E r \in Requests : saveForm(r)
    \/ \E r \in Requests : Receive(r)
    \/ \E r \in Requests : FindUnique(r)
    \/ \E r \in Requests : Create(r)
    \/ \E r \in Requests : fetchThrows(r)
    \/ \E r \in Requests : saveSettled(r)

SaveSpec == Init /\ [][SaveNext]_vars

-----------------------------------------------------------------------------
(* Properties *)

Done(r) == pc[r] = "done"

Conflict == Json(409, "A form with this URL already exists", <<>>)

MissingFields == Json(400, "Missing required fields", <<>>)

\* C1: in every reachable state, however the create requests interleave, no
\* two stored form definitions have the same slug.
C1_SlugsUnique ==
    \A i, j \in 1..Len(store) : i # j => store[i].slug # store[j].slug

\* two creates of one slug both passed the duplicate check before either
\* insert, and both attempted the insert
C1_Witness ==
    \E r1, r2 \in Requests :
        /\ r1 # r2 /\ Done(r1) /\ Done(r2)
        /\ slug[r1] = slug[r2]
        /\ seen[r1] = 0 /\ seen[r2] = 0
        /\ "create" \in ops[r1] /\ "create" \in ops[r2]
        /\ resp[r1].status = 201 /\ Len(store) = 1

\* C2: a uniqueness violation raised by the storage at create time is
\* reported as the slug conflict of the duplicate check (409), not as an
\* internal error.
C2_ViolationIsConflict ==
    \A r \in Requests :
        Done(r) /\ thrown[r] = "UniqueConstraint" => resp[r] = Conflict

\* C3: when a create arrives after a definition with the same slug has been
\* stored, it answers with the slug conflict and attempts no create, and the
\* first definition is still the one its creator stored and is what the read
\* by slug returns.
C3_SecondCreateConflicts ==
    \A r \in Requests :
        Done(r) /\ ~MissingRequired(body[r]) =>
            \A i \in 1..seen[r] :
                store[i].slug = generateSlug(body[r].title) =>
                    /\ resp[r] = Conflict
                    /\ "create" \notin ops[r]
                    /\ \E first \in Requests \ {r} :
                          /\ resp[first].status = 201
                          /\ resp[first].form[1].id = store[i].id
                          /\ store[i].title = body[first].title
                          /\ store[i].fields = FieldRows(body[first].fields)
                    /\ \A got \in getForm(store, generateSlug(body[r].title)) :
                          /\ got # <<>>
                          /\ got[1].id = store[i].id
                          /\ got[1].title = store[i].title

\* the title "A" was posted after the form titled "a" had been stored
C3_Witness ==
    \E r1, r2 \in Requests :
        /\ Done(r2) /\ seen[r2] = 1
        /\ resp[r1].status = 201
        /\ body[r1].title = <<"a">> /\ body[r2].title = <<"A">>
        /\ body[r2].fields # <<>>
        /\ resp[r2].status = 409

\* C4: the fields returned by a successful create have order equal to their
\* position in the submitted sequence, and are the submitted fields in the
\* submitted sequence.
C4_OrderIsPosition ==
    \A r \in Requests :
        resp[r].status = 201 =>
            LET got == resp[r].form[1].fields
                sent == body[r].fields
            IN  /\ Len(got) = Len(sent)
                /\ \A i \in 1..Len(got) :
                      /\ got[i].order = i - 1
                      /\ got[i].label = sent[i].label
                      /\ got[i].type = sent[i].type
                      /\ got[i].required = sent[i].required

\* C5: a create whose title is empty after trimming is refused as a client
\* error and attempts no create.
C5_BlankTitleRefused ==
    \A r \in Requests :
        Done(r) /\ body[r].titleGiven /\ trim(body[r].title) = <<>> =>
            /\ resp[r].status = 400
            /\ "create" \notin ops[r]

\* C6: a create whose title has no ASCII alphanumeric character is refused as
\* a client error, and no stored definition has the empty slug.
C6_EmptySlugRefused ==
    /\ \A r \in Requests :
          Done(r) /\ body[r].titleGiven /\ trim(body[r].title) # <<>>
                  /\ generateSlug(body[r].title) = <<>> =>
              /\ resp[r].status = 400
              /\ "create" \notin ops[r]
    /\ \A i \in 1..Len(store) : store[i].slug # <<>>

\* C7: a create with a missing or empty field list answers 400 "Missing
\* required fields" and issues no storage call.
C7_NoFieldsRefused ==
    \A r \in Requests :
        Done(r) /\ (~body[r].fieldsGiven \/ Len(body[r].fields) = 0) =>
            /\ resp[r] = MissingFields
            /\ ops[r] = {}
            /\ thrown[r] = "none"

\* a titled create with an empty field list was refused while another create
\* stored its form
C7_Witness ==
    \E r, other \in Requests :
        /\ Done(r) /\ body[r].title = <<"a">>
        /\ body[r].fieldsGiven /\ body[r].fields = <<>>
        /\ resp[r].status = 400
        /\ resp[other].status = 201

\* C8: a create with a field whose type is not one of the six kinds is
\* refused as a client error before any create is attempted.
C8_UnknownTypeRefused ==
    \A r \in Requests :
        Done(r) /\ ~MissingRequired(body[r]) /\ BadType(FieldRows(body[r].fields)) =>
            /\ resp[r].status = 400
            /\ "create" \notin ops[r]

\* the options of a field or row; <<>> is undefined, <<list>> a list
OptionsOf(f) == IF "options" \in DOMAIN f THEN <<f.options>> ELSE <<>>

\* C11: a RADIO or CHECKBOX field submitted with an options list is stored
\* with that list unchanged, and the create's result and a later read by slug
\* return the same list.
C11_OptionsRetained ==
    \A r \in Requests :
        resp[r].status = 201 =>
            \A i \in 1..Len(body[r].fields) :
                LET sent == body[r].fields[i]
                IN  sent.type \in {"RADIO", "CHECKBOX"} /\ OptionsOf(sent) # <<>> =>
                        /\ \A k \in 1..Len(store) :
                              store[k].id = resp[r].form[1].id =>
                                  OptionsOf(store[k].fields[i]) = OptionsOf(sent)
                        /\ \A got \in getForm(store, slug[r]) :
                              got # <<>> /\ OptionsOf(got[1].fields[i]) = OptionsOf(sent)

WellFormedSlug(s) ==
    /\ \A i \in 1..Len(s) : InClass(s[i]) \/ s[i] = "-"
    /\ \A i \in 1..(Len(s) - 1) : ~(s[i] = "-" /\ s[i + 1] = "-")
    /\ s # <<>> => s[1] # "-" /\ s[Len(s)] # "-"

\* C9: generateSlug(T) has only characters of [a-z0-9] and '-', no two
\* consecutive '-', and no '-' at its start or end.
C9_SlugWellFormed ==
    slugRun.step \in {"once", "twice"} => WellFormedSlug(slugRun.once)

\* a title with an upper-case letter and an inner separator was slugified
C9_Witness ==
    /\ slugRun.step = "once"
    /\ slugRun.title = <<"A", " ", "7">>
    /\ slugRun.once = <<"a", "-", "7">>

\* C10: generateSlug applied to its own result gives that result.
C10_SlugIdempotent ==
    slugRun.step = "twice" => slugRun.twice = slugRun.once

\* a title that generateSlug changes was slugified twice
C10_Witness ==
    /\ slugRun.step = "twice"
    /\ slugRun.title = <<"!", "U+0130", "7">>
    /\ slugRun.once = <<"i", "-", "7">>

\* the forms of slug s that successful creates had stored when n forms
\* were stored
CreatedBy(s, n) ==
    {r \in Requests : /\ resp[r].status = 201
                      /\ resp[r].form[1].slug = s
                      /\ resp[r].form[1].id <= n}

\* C12: the read by slug of a slug that no successful create had stored
\* gives notFound and no definition; of a stored slug it gives that
\* definition, with its title and its fields ordered by order.
C12_NotFoundOrStored ==
    page.status # "none" =>
        LET made == CreatedBy(page.slug, page.at)
        IN  /\ made = {} => page.status = "notFound" /\ page.form = <<>>
            /\ \A r \in made :
                  /\ page.status = "rendered"
                  /\ page.form # <<>>
                  /\ page.form[1].id = resp[r].form[1].id
                  /\ page.form[1].slug = page.slug
                  /\ page.form[1].title = body[r].title
                  /\ page.form[1].fields \in OrderByAsc(FieldRows(body[r].fields))

\* a slug was rendered as not found, another request then stored it
C12_WitnessNotFound ==
    /\ page.status = "notFound" /\ page.slug = <<"a">> /\ page.at = 0
    /\ \E r \in Requests : resp[r].status = 201 /\ slug[r] = <<"a">>

\* the page of a stored form of two fields was rendered
C12_Witness ==
    /\ page.status = "rendered" /\ page.slug = <<"a">>
    /\ Len(page.form[1].fields) = 2
    /\ page.form[1].fields[1].type = "RADIO"
    /\ Len(store) = 2

\* C13: in the builder's edit buffer, after any sequence of addField and
\* removeField calls, every field's order is its 0-based position in the
\* fields list.
C13_BufferOrderIsPosition ==
    \A i \in 1..Len(formData.fields) : formData.fields[i].order = i - 1

\* C14: every stored definition has the slug generateSlug gives for its own
\* title, whatever slug the request body carried.
C14_SlugFromTitle ==
    \A i \in 1..Len(store) : store[i].slug = generateSlug(store[i].title)

\* the builder sent an edited slug and the form was stored under the slug of
\* its title
C14_Witness ==
    \E r \in Requests :
        /\ resp[r].status = 201
        /\ body[r].slug = <<"7">>
        /\ body[r].title = <<"a">>
        /\ \E i \in 1..Len(store) : store[i].slug = <<"a">>

\* C15: saveForm leaves the edit buffer alone when its local validation fails,
\* when the response is not OK and when the request throws, and clears title
\* and fields when the response is OK; whenever it set isSubmitting it sets it
\* back to false when it finishes.
C15_SaveFormFrame ==
    [][\A r \in Requests :
          save'[r] # save[r] =>
              CASE save[r].pc = "idle" /\ save'[r].pc = "finished" ->
                     /\ \/ trim(closure.formData.title) = <<>>
                        \/ Len(closure.formData.fields) = 0
                     /\ formData' = formData
                     /\ isSubmitting' = isSubmitting
                [] save[r].pc = "idle" /\ save'[r].pc = "awaiting" ->
                     /\ formData' = formData
                     /\ isSubmitting' = TRUE
                [] save[r].pc = "awaiting" /\ save'[r].pc = "finished" ->
                     /\ isSubmitting' = FALSE
                     /\ IF /\ save'[r].outcome # "threw"
                           /\ Done(r) /\ resp[r].status \in 200..299
                        THEN formData'.title = <<>> /\ formData'.fields = <<>>
                        ELSE /\ formData' = formData
                             /\ \/ save'[r].outcome = "threw"
                                \/ Done(r) /\ resp[r].status \notin 200..299
                [] OTHER -> FALSE]_vars

\* one saveForm got an OK response, a later one a response that is not OK,
\* and the buffer of the later one is still filled
C15_Witness ==
    \E r1, r2 \in Requests :
        /\ save[r1] = Finished("ok") /\ save[r2] = Finished("notOk")
        /\ resp[r1].status = 201 /\ resp[r2].status = 409
        /\ formData.title # <<>> /\ formData.fields # <<>>
        /\ ~isSubmitting

=============================================================================
